---- MODULE Spec2Model ----
(***************************************************************************)
(* Model of app.py: an image is encoded as one sine burst per pixel        *)
(* (image_to_audio) and decoded again by a windowed, zero-padded DFT peak  *)
(* search per frame (decode_play_draw).                                    *)
(*                                                                         *)
(* Numbers.  The program computes in IEEE floating point; the model        *)
(* computes in fixed point.  A sample, a window coefficient and a          *)
(* sine/cosine value v are the integer round(v * AMP).  Frequencies, bin   *)
(* centres and gray values are exact rationals, compared by cross          *)
(* multiplication.  Magnitudes are compared through their squares, which   *)
(* orders them as np.abs does.                                             *)
(***************************************************************************)
EXTENDS Integers, Sequences, FiniteSets, TLC

\* ---------------------------------------------------------------- constants
F_MIN == 500
F_MAX == 3000
SAMPLE_RATE == 44100
SAMPLES_PER_PIXEL == 48
N_FFT == 512
RefreshEvery == 1024
Tolerance == 100

\* Fixed-point scale of a float in [-1, 1].
AMP == 10000
\* pi/2 at the scale AMP.
HalfPi == 15708

\* ------------------------------------------------------------------ numerics
\* Integer division rounding toward zero (symmetric in the sign of a).
SDiv(a, b) == IF a >= 0 THEN a \div b ELSE -((-a) \div b)

\* sin(pi/2 * a/den) * AMP for 0 <= a <= den: the Taylor series of sin to
\* the x^9 term, in Horner form.
QuarterSin(a, den) ==
    LET X  == (a * HalfPi + den \div 2) \div den
        x2 == (X * X) \div AMP
        t4 == AMP - x2 \div 72
        t3 == AMP - (x2 * t4) \div (42 * AMP)
        t2 == AMP - (x2 * t3) \div (20 * AMP)
        t1 == AMP - (x2 * t2) \div (6 * AMP)
    IN  (X * t1) \div AMP

RECURSIVE Gcd(_, _)
Gcd(a, b) ==
    IF b = 0 THEN a ELSE CHOOSE g \in {Gcd(b, r) : r \in {a % b}} : TRUE

\* np.sin(2*pi*num/den) * AMP, num >= 0, den > 0: the angle is reduced to
\* the first quadrant, where QuarterSin is evaluated.
\* the fraction r/d of a turn is in lowest terms, 0 <= r < d.
SinReduced(r, d) ==
    LET q   == (4 * r) \div d
        rem == 4 * r - q * d
    IN  CASE q = 0 -> QuarterSin(rem, d)
          [] q = 1 -> QuarterSin(d - rem, d)
          [] q = 2 -> -QuarterSin(rem, d)
          [] OTHER -> -QuarterSin(d - rem, d)

SinTurn(num, den) ==
    CHOOSE s \in {SinReduced((num % den) \div g, den \div g) :
                     g \in {Gcd(den, num % den)}} : TRUE

\* np.cos(2*pi*num/den) * AMP, den > 0.
CosTurn(num, den) == SinTurn(4 * num + den, 4 * den)

\* np.clip(v, lo, hi)
Clip(v, lo, hi) == IF v < lo THEN lo ELSE IF v > hi THEN hi ELSE v

\* np.hanning(M)[n], n in 0..M-1.
Hanning(M, n) ==
    IF M = 1 THEN AMP ELSE (AMP - CosTurn(n, M - 1)) \div 2

\* ------------------------------------------------------------------- encoder
\* wave = np.sin(2*pi*freq*t_base) with freq = F_MIN + pixel*(F_MAX - F_MIN),
\* pixel = gray/255 and t_base[n] = n/SAMPLE_RATE: the phase of sample n is
\* (255*F_MIN + gray*(F_MAX - F_MIN)) * n / (255 * SAMPLE_RATE) turns.
Wave(gray) ==
    [n \in 1..SAMPLES_PER_PIXEL |->
        SinTurn((255 * F_MIN + gray * (F_MAX - F_MIN)) * (n - 1),
                255 * SAMPLE_RATE)]

\* data = pixels.T: data[x][y] = pixels[y][x], one entry per column.
Transpose(img) ==
    [x \in 1..img.width |-> [y \in 1..img.height |-> img.pixels[y][x]]]

\* np.zeros(n)
Zeros(n) == [j \in 1..n |-> 0]

\* audio[idx:idx + SAMPLES_PER_PIXEL] = wave
WriteSlice(arr, at, wave) ==
    [j \in 1..Len(arr) |->
        IF at < j /\ j <= at + Len(wave) THEN wave[j - at] ELSE arr[j]]

\* The pointer moved one sample short: successive bursts overlap.
AdvanceOverlapping(at) == at + SAMPLES_PER_PIXEL - 1

\* idx += SAMPLES_PER_PIXEL
Advance(at) == at + SAMPLES_PER_PIXEL

\* np.clip(audio, -1, 1)
ClipAudio(arr) == [j \in 1..Len(arr) |-> Clip(arr[j], -AMP, AMP)]

\* The metadata dictionary image_to_audio stores in the IMAGE_METADATA tag.
EncoderMetadata(img) ==
    [width |-> img.width, height |-> img.height, F_MIN |-> F_MIN,
     F_MAX |-> F_MAX, SAMPLES_PER_PIXEL |-> SAMPLES_PER_PIXEL,
     SAMPLE_RATE |-> SAMPLE_RATE, N_FFT |-> N_FFT]

\* ------------------------------------------------------------------- decoder
Fields ==
    {"width", "height", "F_MIN", "F_MAX", "SAMPLES_PER_PIXEL", "SAMPLE_RATE",
     "N_FFT"}

\* The band without its tolerance of 100 Hz on either side.
ValidIdxNoTolerance(m) ==
    {k \in 0..(m.N_FFT \div 2) :
        /\ k * m.SAMPLE_RATE >= m.F_MIN * m.N_FFT
        /\ k * m.SAMPLE_RATE <= m.F_MAX * m.N_FFT}

\* freqs = np.fft.rfftfreq(N_FFT, d=1.0/SAMPLE_RATE): bin k of 0..N_FFT//2 is
\* centred at k*SAMPLE_RATE/N_FFT.  valid_idx keeps the bins with
\* F_MIN - 100 <= freqs[k] <= F_MAX + 100.
ValidIdx(m) ==
    {k \in 0..(m.N_FFT \div 2) :
        /\ k * m.SAMPLE_RATE >= (m.F_MIN - Tolerance) * m.N_FFT
        /\ k * m.SAMPLE_RATE <= (m.F_MAX + Tolerance) * m.N_FFT}

\* valid_idx[0] and valid_idx[-1]
SetMin(S) == CHOOSE k \in S : \A j \in S : k <= j
SetMax(S) == CHOOSE k \in S : \A j \in S : k >= j

\* frame_win = frame * np.hanning(len(frame))
Windowed(frame) ==
    [n \in 1..Len(frame) |->
        SDiv(frame[n] * Hanning(Len(frame), n - 1), AMP)]

\* Scales that keep the transform's sums and squares inside 32 bits.
TermScale == 16
SumScale == 4096

\* Squared magnitudes of bins lo..hi of the transform of the windowed frame
\* xw, given the sine and cosine of j/N turns for j in 0..N-1.
Dot(xw, tab, k, N) ==
    LET acc[n \in 0..Len(xw)] ==
            IF n = 0 THEN 0
            ELSE SDiv(xw[n] * tab[((k * (n - 1)) % N) + 1], TermScale)
                 + acc[n - 1]
    IN  acc[Len(xw)]

Power(xw, sinTab, cosTab, N, k) ==
    SDiv(Dot(xw, cosTab, k, N), SumScale)^2
    + SDiv(Dot(xw, sinTab, k, N), SumScale)^2

Spectrum(xw, sinTab, cosTab, N, lo, hi) ==
    [j \in 1..(hi - lo + 1) |-> Power(xw, sinTab, cosTab, N, lo + j - 1)]

SubMag(frame, N, lo, hi) ==
    CHOOSE sub_mag \in
        {Spectrum(xw, sinTab, cosTab, N, lo, hi) \o <<>> :
            xw \in {Windowed(frame) \o <<>>},
            sinTab \in {[j \in 1..N |-> SinTurn(j - 1, N)] \o <<>>},
            cosTab \in {[j \in 1..N |-> CosTurn(j - 1, N)] \o <<>>}} : TRUE

\* The last index of the maximum instead of the first.
ArgMaxLast(a) ==
    (CHOOSE j \in 1..Len(a) :
        /\ \A k \in 1..Len(a) : a[k] <= a[j]
        /\ \A k \in (j + 1)..Len(a) : a[k] < a[j]) - 1

\* np.argmax(a): the first index (from 0) of the maximum.
ArgMax(a) ==
    (CHOOSE j \in 1..Len(a) :
        /\ \A k \in 1..Len(a) : a[k] <= a[j]
        /\ \A k \in 1..(j - 1) : a[k] < a[j]) - 1

\* gray = np.clip((freqs[peak] - F_MIN) / (F_MAX - F_MIN), 0.0, 1.0) as the
\* fraction <<num, den>>, den > 0.  With F_MAX = F_MIN the float division
\* yields +inf or -inf, which the clip turns into 1 or 0, or nan for 0/0,
\* which passes the clip unchanged: nan is <<0, 0>>.
GrayOf(m, peak) ==
    LET num == peak * m.SAMPLE_RATE - m.F_MIN * m.N_FFT
        den == m.N_FFT * (m.F_MAX - m.F_MIN)
        n   == IF den < 0 THEN -num ELSE num
        d   == IF den < 0 THEN -den ELSE den
    IN  IF den = 0
        THEN (IF num > 0 THEN <<1, 1>> ELSE IF num < 0 THEN <<0, 1>> ELSE <<0, 0>>)
        ELSE IF n <= 0 THEN <<0, 1>> ELSE IF n >= d THEN <<1, 1>> ELSE <<n, d>>

\* int(gray * 255), and (img_array * 255).astype(np.uint8)
ToByte(gray) == (255 * gray[1]) \div gray[2]

\* Row-major instead of column-major order.
CoordsRowMajor(w, h) == [j \in 1..(w * h) |-> <<(j - 1) % w, (j - 1) \div w>>]

\* coords = [(x, y) for x in range(width) for y in range(height)]
Coords(w, h) == [j \in 1..(w * h) |-> <<(j - 1) \div h, (j - 1) % h>>]

\* The loop index does not move on.
SameFrame(k) == k

\* for i in range(num_pixels): the index of the next pass
NextFrame(k) == k + 1

\* audio[start:end] for frame i (from 0)
Frame(arr, spp, k) == SubSeq(arr, k * spp + 1, k * spp + spp)

\* audio = audio[:expected_samples]
Truncate(arr, n) == SubSeq(arr, 1, n)

\* A file of exactly the expected length is refused too.
TooShortOrEqual(arr, n) == Len(arr) <= n

\* len(audio) < expected_samples
TooShort(arr, n) == Len(arr) < n

\* padded[:len(frame_win)] = frame_win raises ValueError when the frame is
\* longer than the N_FFT zeros it is copied into.
PadFails(m) == m.SAMPLES_PER_PIXEL > m.N_FFT

\* recovered_pixels.reshape((width, height)).T, times 255 as uint8:
\* row y, column x of the saved image is entry x*height + y.
SavedImage(flat, w, h) ==
    [exists |-> FALSE, width |-> w, height |-> h,
     pixels |-> [y \in 1..h |-> [x \in 1..w |-> ToByte(flat[(x - 1) * h + y])]]]

\* ---------------------------------------------------------------- the inputs
\* Bounds of the checked instances.
MaxPixels == 4
MaxFileSide == 2
MaxAudioLen == 5

\* Gray levels of the input images.
GrayLevels == {16, 64}

\* The images handed to "encode": every width x height raster of at most
\* MaxPixels pixels, empty rasters included.
Images ==
    UNION {{[exists |-> TRUE, width |-> w, height |-> h, pixels |-> p] :
              p \in [1..h -> [1..w -> GrayLevels]]} :
           <<w, h>> \in {s \in (0..MaxPixels) \X (0..MaxPixels) :
                            s[1] * s[2] <= MaxPixels}}

NoImage == [exists |-> FALSE, width |-> 0, height |-> 0, pixels |-> <<>>]

\* The FLAC files handed to "draw" that no run of "encode" wrote: any
\* IMAGE_METADATA tag (complete, lacking one key, or absent) beside any
\* samples.
FileBands == {<<228, 284>>, <<100, 412>>, <<300, 300>>, <<256, 256>>,
              <<500, 3000>>, <<3000, 500>>}
FileTransforms == {<<1024, 8>>, <<1024, 2>>, <<44100, 8>>}
FileSamplesPerPixel == {1, 4}
SampleValues == {-AMP, AMP}

FullTags ==
    {[width |-> w, height |-> h, F_MIN |-> b[1], F_MAX |-> b[2],
      SAMPLES_PER_PIXEL |-> spp, SAMPLE_RATE |-> t[1], N_FFT |-> t[2]] :
        w \in 0..MaxFileSide, h \in 0..MaxFileSide, b \in FileBands,
        spp \in FileSamplesPerPixel, t \in FileTransforms}

PartialTags ==
    {[f \in Fields \ {missing} |-> EncoderMetadata(NoImage)[f]] :
        missing \in Fields}

SampleSeqs == UNION {[1..n -> SampleValues] : n \in 0..MaxAudioLen}

NoFile == [exists |-> FALSE, has_tag |-> FALSE, tag |-> <<>>, samples |-> <<>>]

Files ==
    {[exists |-> TRUE, has_tag |-> TRUE, tag |-> t, samples |-> a] :
        t \in FullTags \cup PartialTags, a \in SampleSeqs}
    \cup {[exists |-> TRUE, has_tag |-> FALSE, tag |-> <<>>, samples |-> a] :
            a \in SampleSeqs}

\* ------------------------------------------------------------------ the state
VARIABLES
    pc,               \* where the running process stands
    outcome,          \* how decode_play_draw ended
    image_in,         \* the image file "encode" reads
    flac,             \* the FLAC file: IMAGE_METADATA tag and samples
    image_out,        \* the image file "draw" saves
    data, audio, idx, col, row,                      \* image_to_audio
    metadata, coords, recovered_pixels, f_min_idx, f_max_idx,
    peak_idx, image_surface, screen, i, pygame_up    \* decode_play_draw

files == <<image_in, flac, image_out>>
encoder == <<data, idx, col, row>>
decoder == <<metadata, coords, recovered_pixels, f_min_idx, f_max_idx,
             peak_idx, image_surface, screen, i, pygame_up>>
vars == <<pc, outcome, files, encoder, audio, decoder>>

NoMetadataTag == EncoderMetadata(NoImage)

Init ==
    /\ pc = "idle"
    /\ outcome = "none"
    /\ \/ image_in \in Images /\ flac = NoFile
       \/ image_in = NoImage /\ flac \in Files
    /\ image_out = NoImage
    /\ data = <<>> /\ audio = <<>> /\ idx = 0 /\ col = 1 /\ row = 1
    /\ metadata = NoMetadataTag /\ coords = <<>> /\ recovered_pixels = <<>>
    /\ f_min_idx = 0 /\ f_max_idx = 0 /\ peak_idx = 0
    /\ image_surface = <<>> /\ screen = <<>> /\ i = 0 /\ pygame_up = FALSE

\* ------------------------------------------------------------ image_to_audio
\* Lines 26-42: load the image, transpose it, allocate the audio array.
EncodeLoad ==
    /\ pc = "idle" /\ image_in.exists
    /\ data' = Transpose(image_in)
    /\ audio' = Zeros(image_in.width * image_in.height * SAMPLES_PER_PIXEL)
    /\ idx' = 0 /\ col' = 1 /\ row' = 1
    /\ pc' = "enc_loop"
    /\ UNCHANGED <<outcome, files, decoder>>

\* Lines 46-54: one pass of the inner loop writes the burst of one pixel.
EncodePixel ==
    /\ pc = "enc_loop" /\ col <= Len(data) /\ row <= Len(data[col])
    /\ \E wave \in {Wave(data[col][row]) \o <<>>} :
          audio' = WriteSlice(audio, idx, wave)
    /\ idx' = Advance(idx)
    /\ row' = row + 1
    /\ UNCHANGED <<pc, outcome, files, data, col, decoder>>

\* Line 44: the inner loop is exhausted, the outer loop takes the next column.
EncodeNextColumn ==
    /\ pc = "enc_loop" /\ col <= Len(data) /\ row > Len(data[col])
    /\ col' = col + 1 /\ row' = 1
    /\ UNCHANGED <<pc, outcome, files, data, audio, idx, decoder>>

\* Lines 57-82: clip, write the samples and the metadata tag, return.
EncodeSave ==
    /\ pc = "enc_loop" /\ col > Len(data)
    /\ flac' = [exists |-> TRUE, has_tag |-> TRUE,
                tag |-> EncoderMetadata(image_in), samples |-> ClipAudio(audio)]
    /\ data' = <<>> /\ audio' = <<>> /\ idx' = 0 /\ col' = 1 /\ row' = 1
    /\ pc' = "idle"
    /\ UNCHANGED <<outcome, image_in, image_out, decoder>>

\* ---------------------------------------------------------- decode_play_draw
Return(why) == pc' = "returned" /\ outcome' = why
Raise(what) == pc' = "raised" /\ outcome' = what

NumPixels == metadata.width * metadata.height
ExpectedSamples == NumPixels * metadata.SAMPLES_PER_PIXEL

\* Lines 90-106: the tag is looked up, parsed and its seven keys are read.
DrawReadMetadata ==
    /\ pc = "idle" /\ flac.exists
    /\ IF ~flac.has_tag
       THEN Return("NoMetadata") /\ UNCHANGED metadata
       ELSE IF ~(Fields \subseteq DOMAIN flac.tag)
       THEN Raise("KeyError") /\ UNCHANGED metadata
       ELSE metadata' = flac.tag /\ pc' = "dec_audio" /\ UNCHANGED outcome
    /\ UNCHANGED <<files, encoder, audio, coords, recovered_pixels, f_min_idx,
                   f_max_idx, peak_idx, image_surface, screen, i, pygame_up>>

\* Lines 109-124: the samples are read, counted and cut to the expected length.
DrawReadAudio ==
    /\ pc = "dec_audio"
    /\ IF TooShort(flac.samples, ExpectedSamples)
       THEN audio' = flac.samples /\ Return("AudioTooShort")
       ELSE /\ audio' = Truncate(flac.samples, ExpectedSamples)
            /\ pc' = "dec_band" /\ UNCHANGED outcome
    /\ UNCHANGED <<files, encoder, decoder>>

\* Lines 126-159: the window is opened and playback started, coords and
\* recovered_pixels are built, the bins of the band are selected.
DrawSelectBand ==
    /\ pc = "dec_band"
    /\ pygame_up' = TRUE
    /\ coords' = Coords(metadata.width, metadata.height)
    /\ recovered_pixels' = [j \in 1..NumPixels |-> <<0, 1>>]
    /\ IF ValidIdx(metadata) = {}
       THEN /\ Return("BandEmpty")
            /\ UNCHANGED <<f_min_idx, f_max_idx, image_surface>>
       ELSE /\ f_min_idx' = SetMin(ValidIdx(metadata))
            /\ f_max_idx' = SetMax(ValidIdx(metadata))
            /\ image_surface' = [c \in (0..(metadata.width - 1)) \X
                                       (0..(metadata.height - 1)) |-> 0]
            /\ pc' = "dec_loop" /\ UNCHANGED outcome
    /\ i' = 0
    /\ UNCHANGED <<files, encoder, audio, metadata, peak_idx, screen>>

\* Lines 164-167 and 257-260: a QUIT event, polled at the start of every pass
\* of the pixel loop and of the final loop, ends the process.
DrawQuit ==
    /\ \/ pc = "dec_loop" /\ i < NumPixels
       \/ pc = "dec_hold"
    /\ pygame_up' = FALSE
    /\ pc' = "exited" /\ outcome' = "Quit"
    /\ UNCHANGED <<files, encoder, audio, metadata, coords, recovered_pixels,
                   f_min_idx, f_max_idx, peak_idx, image_surface, screen, i>>

\* Lines 169-228: one pass of the pixel loop with no QUIT event pending.
DrawFrame ==
    /\ pc = "dec_loop" /\ i < NumPixels
    /\ IF PadFails(metadata)
       THEN /\ Raise("ValueError")
            /\ UNCHANGED <<recovered_pixels, peak_idx, image_surface, screen, i>>
       ELSE \E sub_mag \in {SubMag(Frame(audio, metadata.SAMPLES_PER_PIXEL, i),
                                    metadata.N_FFT, f_min_idx, f_max_idx)} :
            \E peak \in {f_min_idx + ArgMax(sub_mag)} :
            \E gray \in {GrayOf(metadata, peak)} :
               /\ peak_idx' = peak
               /\ recovered_pixels' = [recovered_pixels EXCEPT ![i + 1] = gray]
               /\ IF gray[2] = 0
                  THEN /\ Raise("ValueError")
                       /\ UNCHANGED <<image_surface, screen, i>>
                  ELSE /\ image_surface' =
                              [image_surface EXCEPT
                                 ![coords[i + 1]] = ToByte(gray)]
                       /\ screen' = IF i % RefreshEvery = 0
                                    THEN image_surface' ELSE screen
                       /\ i' = NextFrame(i)
                       /\ UNCHANGED <<pc, outcome>>
    /\ UNCHANGED <<files, encoder, audio, metadata, coords, f_min_idx,
                   f_max_idx, pygame_up>>

\* Lines 230-253: after the last pass the display is refreshed (the scale
\* ratio divides by width and by height) and the image is saved.
DrawFinish ==
    /\ pc = "dec_loop" /\ i = NumPixels
    /\ IF metadata.width = 0 \/ metadata.height = 0
       THEN Raise("ZeroDivisionError") /\ UNCHANGED <<screen, image_out>>
       ELSE /\ screen' = image_surface
            /\ image_out' = [SavedImage(recovered_pixels, metadata.width,
                                        metadata.height) EXCEPT !.exists = TRUE]
            /\ pc' = "dec_hold" /\ outcome' = "Saved"
    /\ UNCHANGED <<image_in, flac, encoder, audio, metadata, coords,
                   recovered_pixels, f_min_idx, f_max_idx, peak_idx,
                   image_surface, i, pygame_up>>

\* Lines 256-261: no QUIT event is pending, the final loop sleeps and polls
\* again.
DrawHold ==
    /\ pc = "dec_hold"
    /\ UNCHANGED vars

Next ==
    \/ EncodeLoad \/ EncodePixel \/ EncodeNextColumn \/ EncodeSave
    \/ DrawReadMetadata \/ DrawReadAudio \/ DrawSelectBand
    \/ DrawQuit \/ DrawFrame \/ DrawFinish \/ DrawHold

Spec == Init /\ [][Next]_vars

\* The process is single-threaded and runs its next statement whenever it has
\* one; a QUIT event may or may not ever arrive.
ProgramStep ==
    \/ EncodeLoad \/ EncodePixel \/ EncodeNextColumn \/ EncodeSave
    \/ DrawReadMetadata \/ DrawReadAudio \/ DrawSelectBand
    \/ DrawFrame \/ DrawFinish

\* Progress does not depend on the pixel or sample values: the images of the
\* liveness specification are uniform and its stored files hold a constant
\* signal.
LiveInit ==
    /\ Init
    /\ \A y \in 1..image_in.height : \A x \in 1..image_in.width :
           image_in.pixels[y][x] = 64
    /\ \A j \in 1..Len(flac.samples) : flac.samples[j] = AMP

LiveSpec == LiveInit /\ [][Next]_vars /\ WF_vars(ProgramStep)

\* ================================================================== claims
\* A run of "draw" on a file that a run of "encode" wrote.
RoundTrip == image_in.exists /\ flac.exists

\* The seven keys are all in the tag of the file.
CompleteTag == flac.has_tag /\ Fields \subseteq DOMAIN flac.tag

\* decode_play_draw is over, or waits in its final loop with the image saved.
DrawEnded == pc \in {"returned", "raised", "exited", "dec_hold"}

\* Pixels the encoder's loops have passed.
PixelsDone == (col - 1) * image_in.height + (row - 1)

\* ---------------------------------------------------------------------- C2
\* C2: while and after the encoder's pixel loop runs, the audio array has
\* width*height*SAMPLES_PER_PIXEL samples, idx is SAMPLES_PER_PIXEL times the
\* number of pixels passed, the bursts written so far lie back to back in
\* 0..idx-1 and are intact, nothing is written from idx on, and the file
\* that is written holds exactly width*height*SAMPLES_PER_PIXEL samples.
C2_LengthInvariant ==
    /\ pc = "enc_loop" =>
          /\ Len(audio) = image_in.width * image_in.height * 48
          /\ idx = PixelsDone * 48
          /\ \A k \in 0..(PixelsDone - 1) :
                \A n \in 1..48 :
                   audio[k * 48 + n] =
                      Wave(data[(k \div image_in.height) + 1]
                               [(k % image_in.height) + 1])[n]
          /\ \A j \in (idx + 1)..Len(audio) : audio[j] = 0
          /\ col > image_in.width => idx = Len(audio)
    /\ (pc = "idle" /\ RoundTrip) =>
          Len(flac.samples) = image_in.width * image_in.height * 48

\* A 2x2 raster has been encoded to 192 samples.
C2_Witness ==
    /\ pc = "idle" /\ RoundTrip
    /\ image_in.width = 2 /\ image_in.height = 2
    /\ Len(flac.samples) = 192

\* ---------------------------------------------------------------------- C7
\* The byte decode_play_draw yields for the burst of one gray level.
DecodedLevel ==
    [g \in GrayLevels |->
        ToByte(GrayOf(NoMetadataTag,
                      SetMin(ValidIdx(NoMetadataTag))
                      + ArgMax(SubMag(Wave(g), N_FFT,
                                      SetMin(ValidIdx(NoMetadataTag)),
                                      SetMax(ValidIdx(NoMetadataTag))))))]

\* C7: the encoder writes the burst of pixel (x, y) at frame x*H + y; the
\* decoder's coords list maps frame j to (j div H, j mod H), one to one onto
\* the W x H coordinates; the gray value of each decoded frame is drawn at
\* that coordinate of the surface, the coordinates of frames not yet decoded
\* are untouched, and the saved image holds entry x*H + y at row y, column x;
\* so a round trip returns at (x, y) what the burst of input pixel (x, y)
\* decodes to.
C7_TraversalOrder ==
    /\ RoundTrip =>
          \A x \in 0..(image_in.width - 1), y \in 0..(image_in.height - 1) :
             SubSeq(flac.samples, (x * image_in.height + y) * 48 + 1,
                                  (x * image_in.height + y) * 48 + 48)
                = Wave(image_in.pixels[y + 1][x + 1])
    /\ pc \in {"dec_loop", "dec_hold"} =>
          /\ Len(coords) = metadata.width * metadata.height
          /\ \A j \in 1..Len(coords) :
                coords[j] = <<(j - 1) \div metadata.height,
                              (j - 1) % metadata.height>>
          /\ \A x \in 0..(metadata.width - 1), y \in 0..(metadata.height - 1) :
                Cardinality({j \in 1..Len(coords) : coords[j] = <<x, y>>}) = 1
          /\ \A j \in 1..i :
                image_surface[coords[j]] = ToByte(recovered_pixels[j])
          /\ \A j \in (i + 1)..Len(coords) : image_surface[coords[j]] = 0
    /\ pc = "dec_hold" =>
          /\ image_out.width = metadata.width
          /\ image_out.height = metadata.height
          /\ \A x \in 0..(metadata.width - 1), y \in 0..(metadata.height - 1) :
                image_out.pixels[y + 1][x + 1] =
                   ToByte(recovered_pixels[x * metadata.height + y + 1])
    /\ (pc = "dec_hold" /\ RoundTrip) =>
          /\ image_out.width = image_in.width
          /\ image_out.height = image_in.height
          /\ \A x \in 0..(image_in.width - 1), y \in 0..(image_in.height - 1) :
                /\ image_out.pixels[y + 1][x + 1] =
                      DecodedLevel[image_in.pixels[y + 1][x + 1]]
                /\ image_surface[<<x, y>>] =
                      DecodedLevel[image_in.pixels[y + 1][x + 1]]

\* A 2x2 raster whose only bright pixel is at column 1, row 0 has made the
\* round trip, and only that pixel of the saved image is bright.
C7_Witness ==
    /\ pc = "dec_hold" /\ RoundTrip
    /\ image_in.pixels = <<<<16, 64>>, <<16, 16>>>>
    /\ image_out.pixels[1][2] > image_out.pixels[1][1]
    /\ image_out.pixels[2][1] = image_out.pixels[1][1]
    /\ image_out.pixels[2][2] = image_out.pixels[1][1]

\* ---------------------------------------------------------------------- C8
\* The bins whose centre k*SAMPLE_RATE/N_FFT lies in [F_MIN-100, F_MAX+100].
BandBins(t) ==
    {k \in 0..(t.N_FFT \div 2) :
        /\ (t.F_MIN - 100) * t.N_FFT <= k * t.SAMPLE_RATE
        /\ k * t.SAMPLE_RATE <= (t.F_MAX + 100) * t.N_FFT}

\* The spectrum, over f_min_idx..f_max_idx, of the frame decoded last.
LastSpectrum ==
    SubMag(Frame(audio, metadata.SAMPLES_PER_PIXEL, i - 1), metadata.N_FFT,
           f_min_idx, f_max_idx)

\* C8: after every decoded frame, the bins searched are exactly the bins of
\* the band, peak_idx is one of them, no bin of the band has a larger
\* magnitude, and every bin of the band below peak_idx has a smaller one.
C8_PeakPick ==
    (pc = "dec_loop" /\ i >= 1) =>
       /\ f_min_idx..f_max_idx = BandBins(metadata)
       /\ peak_idx \in BandBins(metadata)
       /\ \A sub \in {LastSpectrum} :
             \A k \in BandBins(metadata) :
                /\ sub[k - f_min_idx + 1] <= sub[peak_idx - f_min_idx + 1]
                /\ k < peak_idx =>
                      sub[k - f_min_idx + 1] < sub[peak_idx - f_min_idx + 1]

\* A frame has been decoded in which a higher bin of the band ties with the
\* selected one.
C8_Witness ==
    /\ pc = "dec_loop" /\ i >= 1
    /\ \E sub \in {LastSpectrum} :
          \E k \in BandBins(metadata) :
             /\ k > peak_idx
             /\ sub[peak_idx - f_min_idx + 1] > 0
             /\ sub[k - f_min_idx + 1] = sub[peak_idx - f_min_idx + 1]

\* ---------------------------------------------------------------------- C3
\* width * height * samples_per_pixel of a complete tag.
Expected(t) == t.width * t.height * t.SAMPLES_PER_PIXEL

\* C3: with a complete tag, decode ends at the length check (the
\* "AudioTooShort" return) exactly when the file holds fewer than
\* width*height*samples_per_pixel samples; otherwise it goes on with exactly
\* the first width*height*samples_per_pixel samples of the file, and each
\* decoded gray value is the one of the frame at its place in that prefix.
C3_TruncationSafety ==
    CompleteTag =>
       /\ (DrawEnded /\ Len(flac.samples) < Expected(flac.tag)) =>
             (pc = "returned" /\ outcome = "AudioTooShort")
       /\ outcome = "AudioTooShort" => Len(flac.samples) < Expected(flac.tag)
       /\ pc \in {"dec_band", "dec_loop", "dec_hold"} =>
             /\ Len(flac.samples) >= Expected(flac.tag)
             /\ audio = SubSeq(flac.samples, 1, Expected(flac.tag))
       /\ (pc = "dec_loop" /\ i >= 1) =>
             /\ i * flac.tag.SAMPLES_PER_PIXEL <= Expected(flac.tag)
             /\ recovered_pixels[i] =
                   GrayOf(flac.tag,
                          f_min_idx
                          + ArgMax(SubMag(
                               SubSeq(flac.samples,
                                      (i - 1) * flac.tag.SAMPLES_PER_PIXEL + 1,
                                      i * flac.tag.SAMPLES_PER_PIXEL),
                               flac.tag.N_FFT, f_min_idx, f_max_idx)))

\* A file with samples after the expected ones has been decoded and saved.
C3_Witness ==
    /\ pc = "dec_hold" /\ CompleteTag
    /\ flac.tag.SAMPLES_PER_PIXEL = 4
    /\ Len(flac.samples) > Expected(flac.tag)
    /\ image_out.exists

\* ---------------------------------------------------------------------- C4
\* The tag is absent, lacks a key, or has f_min >= f_max.
InvalidMetadata ==
    \/ ~flac.has_tag
    \/ ~(Fields \subseteq DOMAIN flac.tag)
    \/ flac.tag.F_MIN >= flac.tag.F_MAX

\* C4 (as claimed): with an absent, incomplete or out-of-range tag, no
\* sample is ever read, and decode ends with the missing-metadata return or
\* the KeyError.
C4_MetadataValidation ==
    (flac.exists /\ InvalidMetadata) =>
       /\ audio = <<>>
       /\ DrawEnded => outcome \in {"NoMetadata", "KeyError"}

\* ---------------------------------------------------------------------- C5
\* C5 (as claimed): with a complete tag, decode ends with the empty-band
\* return exactly when no bin lies in the band.
C5_EmptyBandExactly ==
    (CompleteTag /\ DrawEnded) =>
       (outcome = "BandEmpty" <=> BandBins(flac.tag) = {})

\* C5 (amended): with a complete tag, decode ends with the empty-band return
\* exactly when no bin lies in the band and the file holds at least
\* width*height*samples_per_pixel samples; it does so before any frame is
\* processed, and the pixel loop is only ever entered with a bin in the band.
C5_EmptyBand ==
    CompleteTag =>
       /\ DrawEnded =>
             (outcome = "BandEmpty" <=>
                 /\ BandBins(flac.tag) = {}
                 /\ Len(flac.samples) >= Expected(flac.tag))
       /\ outcome = "BandEmpty" =>
             /\ pc = "returned" /\ i = 0 /\ peak_idx = 0
             /\ \A j \in 1..Len(recovered_pixels) : recovered_pixels[j] = <<0, 1>>
             /\ ~image_out.exists
       /\ pc \in {"dec_loop", "dec_hold"} => BandBins(flac.tag) # {}

\* fft_size 8 at 44100 Hz with the band 500..3000 has ended decode with the
\* empty-band return, the file holding a pixel's samples.
C5_Witness ==
    /\ outcome = "BandEmpty" /\ CompleteTag
    /\ flac.tag.N_FFT = 8 /\ flac.tag.SAMPLE_RATE = 44100
    /\ flac.tag.F_MIN = 500 /\ flac.tag.F_MAX = 3000
    /\ Expected(flac.tag) > 0

\* ---------------------------------------------------------------------- C6
\* A condition the design calls fatal holds of the file.
FatalCondition ==
    \/ InvalidMetadata
    \/ Len(flac.samples) < Expected(flac.tag)
    \/ BandBins(flac.tag) = {}

\* C6 (as claimed): decode of a file with a fatal condition writes no image,
\* and an image is written only after all width*height frames are decoded.
C6_NoPartialOutput ==
    /\ (flac.exists /\ FatalCondition) => ~image_out.exists
    /\ image_out.exists =>
          /\ i = metadata.width * metadata.height
          /\ Len(recovered_pixels) = metadata.width * metadata.height

\* ---------------------------------------------------------------------- C9
\* C9 (as claimed): with a complete tag with f_min < f_max, no frame of the
\* pixel loop raises, and every decoded frame has a gray value in [0, 1].
C9_NoMidImageFailure ==
    (CompleteTag /\ flac.tag.F_MIN < flac.tag.F_MAX) =>
       /\ outcome # "ValueError"
       /\ pc = "dec_loop" =>
             \A j \in 1..i :
                /\ recovered_pixels[j][2] > 0
                /\ 0 <= recovered_pixels[j][1]
                /\ recovered_pixels[j][1] <= recovered_pixels[j][2]

\* ---------------------------------------------------------------------- C1
\* |gray - g/255| <= (SAMPLE_RATE/N_FFT) / (F_MAX - F_MIN) for a decoded gray
\* value <<num, den>>, whose den is 1 or N_FFT*(F_MAX - F_MIN).
WithinOneBin(gray, g) ==
    LET D == N_FFT * (F_MAX - F_MIN)
        e == 255 * gray[1] - g * gray[2]
    IN  (IF e < 0 THEN -e ELSE e) * (D \div gray[2]) <= 255 * SAMPLE_RATE

\* C1 (as claimed): after a round trip every pixel's decoded gray value is
\* within one bin's worth of the input gray value.
C1_RoundTrip ==
    (pc = "dec_hold" /\ RoundTrip) =>
       \A x \in 0..(image_in.width - 1), y \in 0..(image_in.height - 1) :
          WithinOneBin(recovered_pixels[x * image_in.height + y + 1],
                       image_in.pixels[y + 1][x + 1])

\* --------------------------------------------------------------------- C10
\* C10 (as claimed, in part): a window-close event never ends decode before
\* the image is saved.
C10_NoCancellation == pc = "exited" => image_out.exists

\* C10 (amended): once decode has read its metadata it eventually ends or
\* reaches its final loop; it returns to its caller only without having
\* saved an image; once the image is saved it stays in the final loop until
\* a QUIT event ends the process.
C10_RunsToCompletion ==
    /\ (pc \in {"dec_audio", "dec_band", "dec_loop"}) ~> DrawEnded
    /\ [](pc = "returned" => ~image_out.exists)
    /\ [](image_out.exists => pc \in {"dec_hold", "exited"})
    /\ [][pc = "dec_hold" => pc' \in {"dec_hold", "exited"}]_vars

\* The image of two or more pixels was saved and a QUIT event then ended the
\* process.
C10_Witness ==
    /\ pc = "exited" /\ image_out.exists
    /\ i >= 2

====
